---------------------------- MODULE Spec2Model ----------------------------
(***************************************************************************)
(* pdf-converter: page selection, output naming, SVG rescale and the       *)
(* conversion driver (src/src/utils.rs, src/src/main.rs).                  *)
(*                                                                         *)
(* Text is a sequence of one-character strings, so "a-b" is                *)
(* <<"a", "-", "b">>.  Fixed pieces of a formatted message are kept as one *)
(* element each.                                                           *)
(***************************************************************************)
EXTENDS Integers, Sequences, FiniteSets

VARIABLES pages, total, prefix, input, scale, quiet, svg, env, ret, run

vars == <<pages, total, prefix, input, scale, quiet, svg, env, ret, run>>

(***************************************************************************)
(* Bounds of the checked inputs.                                           *)
(***************************************************************************)
\* pages of the largest document
MaxTotal == 3
\* --page values of the longest request given to validate_requested_pages alone
MaxReq == 3
\* --page values of the longest request of a whole run
MaxRunReq == 2
\* characters of the longest --prefix / input path
MaxLen == 3
\* characters of the longest width/height attribute value
MaxValLen == 3

(***************************************************************************)
(* Option<T> and pending results.                                          *)
(***************************************************************************)
None == [some |-> FALSE]
Some(v) == [some |-> TRUE, val |-> v]
Pending == [fn |-> "pending"]

(***************************************************************************)
(* Text helpers.                                                           *)
(***************************************************************************)
\* all texts over alphabet A of length at most n
Texts(A, n) == UNION {[1..k -> A] : k \in 0..n}

Last(s) == s[Len(s)]

Digits == <<"0", "1", "2", "3", "4", "5", "6", "7", "8", "9">>

DigitChars == {Digits[i] : i \in 1..10}

\* usize::to_string / format!("{}", n) for n >= 0
RECURSIVE to_string(_)
to_string(n) ==
    IF n < 10 THEN <<Digits[n + 1]>>
    ELSE to_string(n \div 10) \o <<Digits[(n % 10) + 1]>>

\* Vec::sort_unstable on numbers: ascending order, duplicates kept
RECURSIVE Insert(_, _)
Insert(x, sorted) ==
    IF sorted = <<>> THEN <<x>>
    ELSE IF x <= Head(sorted) THEN <<x>> \o sorted
    ELSE <<Head(sorted)>> \o Insert(x, Tail(sorted))

RECURSIVE sort_unstable(_)
sort_unstable(v) ==
    IF v = <<>> THEN <<>> ELSE Insert(Head(v), sort_unstable(Tail(v)))

\* Vec::dedup: of each run of equal neighbours the first is kept
RECURSIVE dedup(_)
dedup(v) ==
    IF Len(v) <= 1 THEN v
    ELSE IF v[1] = v[2] THEN dedup(Tail(v))
    ELSE <<v[1]>> \o dedup(Tail(v))

(***************************************************************************)
(* utils.rs: sanitize_prefix_raw                                           *)
(***************************************************************************)
SEP == "-"

Letters ==
    {"a", "b", "c", "d", "e", "f", "g", "h", "i", "j", "k", "l", "m",
     "n", "o", "p", "q", "r", "s", "t", "u", "v", "w", "x", "y", "z",
     "A", "B", "C", "D", "E", "F", "G", "H", "I", "J", "K", "L", "M",
     "N", "O", "P", "Q", "R", "S", "T", "U", "V", "W", "X", "Y", "Z"}

is_ascii_alphanumeric(c) == c \in Letters \/ c \in DigitChars

\* line 11
keep(c) == is_ascii_alphanumeric(c) \/ c = "-" \/ c = "_" \/ c = "."

\* lines 10-19: the first loop, from position i with the output so far
RECURSIVE FirstPass(_, _, _, _)
FirstPass(s, i, out, last_was_sep) ==
    IF i > Len(s) THEN out
    ELSE IF keep(s[i]) THEN FirstPass(s, i + 1, Append(out, s[i]), FALSE)
    ELSE IF ~last_was_sep THEN FirstPass(s, i + 1, Append(out, SEP), TRUE)
    ELSE FirstPass(s, i + 1, out, last_was_sep)

\* str::trim_matches(c)
RECURSIVE TrimStart(_, _)
TrimStart(s, c) ==
    IF s # <<>> /\ Head(s) = c THEN TrimStart(Tail(s), c) ELSE s

RECURSIVE TrimEnd(_, _)
TrimEnd(s, c) ==
    IF s # <<>> /\ Last(s) = c THEN TrimEnd(SubSeq(s, 1, Len(s) - 1), c) ELSE s

trim_matches(s, c) == TrimEnd(TrimStart(s, c), c)

\* lines 26-39: the second loop
RECURSIVE Collapse(_, _, _, _)
Collapse(trimmed, i, collapsed, prev_sep) ==
    IF i > Len(trimmed) THEN collapsed
    ELSE IF trimmed[i] = SEP
         THEN IF ~prev_sep
              THEN Collapse(trimmed, i + 1, Append(collapsed, SEP), TRUE)
              ELSE Collapse(trimmed, i + 1, collapsed, prev_sep)
         ELSE Collapse(trimmed, i + 1, Append(collapsed, trimmed[i]), FALSE)

\* mutant: the second loop is left out and the trimmed text returned
sanitize_without_collapse(s) ==
    trim_matches(FirstPass(s, 1, <<>>, FALSE), SEP)

sanitize_prefix_raw(s) ==
    LET out == FirstPass(s, 1, <<>>, FALSE)
        trimmed == trim_matches(out, SEP)
    IN  IF trimmed = <<>> THEN <<>> ELSE Collapse(trimmed, 1, <<>>, FALSE)

(***************************************************************************)
(* utils.rs: resolve_prefix, with Path::file_stem as std defines it        *)
(***************************************************************************)
\* the pieces of a path between '/' separators
RECURSIVE SplitSlash(_, _, _)
SplitSlash(p, i, cur) ==
    IF i > Len(p) THEN <<cur>>
    ELSE IF p[i] = "/" THEN <<cur>> \o SplitSlash(p, i + 1, <<>>)
    ELSE SplitSlash(p, i + 1, Append(cur, p[i]))

\* Path::file_name: the last component, unless the path has none or ends in ".."
\* (empty pieces and "." pieces are not components of their own at the end)
file_name(p) ==
    LET parts == SplitSlash(p, 1, <<>>)
        comps == SelectSeq(parts, LAMBDA c : c # <<>> /\ c # <<".">>)
    IN  IF comps = <<>> \/ Last(comps) = <<".", ".">> THEN None
        ELSE Some(Last(comps))

\* position of the last '.' of a file name, 0 if there is none
RECURSIVE LastDot(_, _)
LastDot(f, i) ==
    IF i = 0 THEN 0 ELSE IF f[i] = "." THEN i ELSE LastDot(f, i - 1)

\* Path::file_stem: the file name up to its last '.', the whole name when it
\* has no '.' or only a leading one
file_stem(p) ==
    LET fname == file_name(p)
    IN  IF ~fname.some THEN None
        ELSE LET f == fname.val
                 d == LastDot(f, Len(f))
             IN  IF d <= 1 THEN Some(f) ELSE Some(SubSeq(f, 1, d - 1))

Rendered == <<"r", "e", "n", "d", "e", "r", "e", "d">>

\* lines 54-62
resolve_base(prefix_opt, input_path) ==
    IF prefix_opt.some THEN sanitize_prefix_raw(prefix_opt.val)
    ELSE LET stem == file_stem(input_path)
             stem_lossy == IF stem.some THEN stem.val ELSE Rendered
         IN  sanitize_prefix_raw(stem_lossy)

\* mutant: the fallback to "rendered" of lines 64-66 is left out
resolve_prefix_without_fallback(prefix_opt, input_path) ==
    Append(resolve_base(prefix_opt, input_path), SEP)

\* lines 53-71
resolve_prefix(prefix_opt, input_path) ==
    LET base0 == resolve_base(prefix_opt, input_path)
        base1 == IF base0 = <<>> THEN Rendered ELSE base0
    IN  IF Last(base1) # SEP THEN Append(base1, SEP) ELSE base1

(***************************************************************************)
(* utils.rs: validate_requested_pages                                      *)
(***************************************************************************)
Ok(v) == [ok |-> TRUE, val |-> v]
Err(m) == [ok |-> FALSE, msg |-> m]

\* lines 89-93
problematic_of(requested, n) ==
    SelectSeq(requested, LAMBDA p : p = 0 \/ p > n)

\* lines 98-102: the numbers joined with ", "
RECURSIVE JoinNumbers(_)
JoinNumbers(nums) ==
    IF nums = <<>> THEN <<>>
    ELSE IF Len(nums) = 1 THEN to_string(nums[1])
    ELSE to_string(nums[1]) \o <<",", " ">> \o JoinNumbers(Tail(nums))

MsgHead == "Invalid requested page(s): "
MsgMid == ". The page numbers must be between 1 and "
MsgEnd == "."

\* mutant: the dedup of line 97 is left out
page_error_message_without_dedup(problematic, n) ==
    <<MsgHead>> \o JoinNumbers(sort_unstable(problematic)) \o <<MsgMid>>
      \o to_string(n) \o <<MsgEnd>>

\* lines 96-106
page_error_message(problematic, n) ==
    LET sorted_dedup == dedup(sort_unstable(problematic))
    IN  <<MsgHead>> \o JoinNumbers(sorted_dedup) \o <<MsgMid>>
          \o to_string(n) \o <<MsgEnd>>

\* mutant: line 111 keeps the 1-based numbers
validate_requested_pages_one_based(requested, n) ==
    IF requested = <<>> THEN Ok({})
    ELSE IF problematic_of(requested, n) # <<>>
    THEN Err(page_error_message(problematic_of(requested, n), n))
    ELSE Ok({requested[i] : i \in 1..Len(requested)})

\* lines 78-113
validate_requested_pages(requested, n) ==
    IF requested = <<>> THEN Ok({})
    ELSE LET problematic == problematic_of(requested, n)
         IN  IF problematic # <<>>
             THEN Err(page_error_message(problematic, n))
             ELSE Ok({requested[i] - 1 : i \in 1..Len(requested)})

(***************************************************************************)
(* f32 as the SVG rescale uses it (main.rs lines 284-301).  A value is     *)
(*   [cls |-> "finite", neg, m, e]  of magnitude m * 2^e, where m = 0 and  *)
(*       e = 0 (a zero), or 2^23 <= m < 2^24 and -149 <= e <= 104 (normal),*)
(*       or 0 < m < 2^23 and e = -149 (subnormal);                         *)
(*   [cls |-> "inf", neg, m |-> 0, e |-> 0]  an infinity;                  *)
(*   [cls |-> "nan", neg |-> FALSE, m |-> 0, e |-> 0]  a NaN, whose sign   *)
(*       and payload no operation used here shows.                         *)
(* Exact intermediate results are natural numbers of any size, held as     *)
(* limbs below 2^15, lowest first, without high zero limbs.                *)
(***************************************************************************)
Pow2[k \in 0..30] == IF k = 0 THEN 1 ELSE 2 * Pow2[k - 1]

F32(m, e) == [cls |-> "finite", neg |-> FALSE, m |-> m, e |-> e]

F32Zero == F32(0, 0)

\* 1.0f32, and the default of --scale (main.rs line 56)
F32One == F32(Pow2[23], -23)

F32Inf == [cls |-> "inf", neg |-> FALSE, m |-> 0, e |-> 0]

F32NaN == [cls |-> "nan", neg |-> FALSE, m |-> 0, e |-> 0]

WithSign(x, neg) == [x EXCEPT !.neg = neg]

Front(s) == SubSeq(s, 1, Len(s) - 1)

Base == Pow2[15]

RECURSIVE NatFromInt(_)
NatFromInt(n) == IF n = 0 THEN <<>> ELSE <<n % Base>> \o NatFromInt(n \div Base)

RECURSIVE NatTrim(_)
NatTrim(a) ==
    IF a = <<>> THEN a
    ELSE IF Last(a) = 0 THEN NatTrim(Front(a))
    ELSE a

\* a * c + carry, for c below 2^15
RECURSIVE NatMulSmall(_, _, _)
NatMulSmall(a, c, carry) ==
    IF a = <<>> THEN NatFromInt(carry)
    ELSE <<(a[1] * c + carry) % Base>>
           \o NatMulSmall(Tail(a), c, (a[1] * c + carry) \div Base)

RECURSIVE NatAdd(_, _, _)
NatAdd(a, b, carry) ==
    IF a = <<>> /\ b = <<>> THEN NatFromInt(carry)
    ELSE LET x == IF a = <<>> THEN 0 ELSE a[1]
             y == IF b = <<>> THEN 0 ELSE b[1]
             s == x + y + carry
         IN  <<s % Base>> \o NatAdd(IF a = <<>> THEN a ELSE Tail(a),
                                    IF b = <<>> THEN b ELSE Tail(b),
                                    s \div Base)

RECURSIVE NatMul(_, _)
NatMul(a, b) ==
    IF a = <<>> \/ b = <<>> THEN <<>>
    ELSE NatTrim(NatAdd(NatMulSmall(a, b[1], 0), <<0>> \o NatMul(a, Tail(b)), 0))

\* -1, 0 or 1 as a is below, equal to or above b
RECURSIVE NatCmp(_, _)
NatCmp(a, b) ==
    IF Len(a) # Len(b) THEN (IF Len(a) < Len(b) THEN -1 ELSE 1)
    ELSE IF a = <<>> THEN 0
    ELSE IF Last(a) # Last(b) THEN (IF Last(a) < Last(b) THEN -1 ELSE 1)
    ELSE NatCmp(Front(a), Front(b))

RECURSIVE NatSubLimbs(_, _, _)
NatSubLimbs(a, b, borrow) ==
    IF a = <<>> THEN <<>>
    ELSE LET y == IF b = <<>> THEN 0 ELSE b[1]
             d == a[1] - y - borrow
         IN  <<IF d < 0 THEN d + Base ELSE d>>
               \o NatSubLimbs(Tail(a), IF b = <<>> THEN b ELSE Tail(b),
                              IF d < 0 THEN 1 ELSE 0)

\* a - b, for a >= b
NatSub(a, b) == NatTrim(NatSubLimbs(a, b, 0))

\* quotient and remainder of a by c, for 0 < c <= 2^15
RECURSIVE NatDivSmall(_, _)
NatDivSmall(a, c) ==
    IF a = <<>> THEN [q |-> <<>>, r |-> 0]
    ELSE LET high == NatDivSmall(Tail(a), c)
             cur == high.r * Base + a[1]
         IN  [q |-> NatTrim(<<cur \div c>> \o high.q), r |-> cur % c]

\* a * 2^s
NatShl(a, s) ==
    IF a = <<>> THEN <<>>
    ELSE [i \in 1..(s \div 15) |-> 0] \o NatMulSmall(a, Pow2[s % 15], 0)

\* a / 2^s, rounded down
NatShr(a, s) ==
    IF s \div 15 >= Len(a) THEN <<>>
    ELSE NatDivSmall(SubSeq(a, s \div 15 + 1, Len(a)), Pow2[s % 15]).q

RECURSIVE BitLength(_)
BitLength(n) == IF n = 0 THEN 0 ELSE 1 + BitLength(n \div 2)

NatBits(a) == IF a = <<>> THEN 0 ELSE 15 * (Len(a) - 1) + BitLength(Last(a))

\* a / 2^s, rounded to nearest, a tie to the even neighbour
NatShrRound(a, s) ==
    IF s = 0 THEN a
    ELSE LET q == NatShr(a, s)
             rem == NatSub(a, NatShl(q, s))
             c == NatCmp(rem, NatShl(<<1>>, s - 1))
             odd == q # <<>> /\ q[1] % 2 = 1
         IN  IF c > 0 \/ (c = 0 /\ odd) THEN NatAdd(q, <<1>>, 0) ELSE q

DigitValue(c) == CHOOSE i \in 0..9 : Digits[i + 1] = c

\* 10^k, by squaring
RECURSIVE NatPow10(_)
NatPow10(k) ==
    IF k = 0 THEN <<1>>
    ELSE IF k % 2 = 1 THEN NatMulSmall(NatPow10(k - 1), 10, 0)
    ELSE LET h == NatPow10(k \div 2)
         IN  NatMul(h, h)

\* the number a text of decimal digits denotes: the upper half of the digits
\* times a power of ten, plus the lower half
RECURSIVE NatFromDigits(_)
NatFromDigits(ds) ==
    IF ds = <<>> THEN <<>>
    ELSE IF Len(ds) = 1 THEN NatFromInt(DigitValue(ds[1]))
    ELSE LET h == Len(ds) \div 2
             high == NatFromDigits(SubSeq(ds, 1, Len(ds) - h))
             low == NatFromDigits(SubSeq(ds, Len(ds) - h + 1, Len(ds)))
         IN  NatAdd(NatMul(high, NatPow10(h)), low, 0)

\* the decimal digits of a, four at a time, none for zero
RECURSIVE NatToDecimal(_)
NatToDecimal(a) ==
    IF a = <<>> THEN <<>>
    ELSE LET d == NatDivSmall(a, 10000)
             low == to_string(d.r)
         IN  IF d.q = <<>> THEN low
             ELSE NatToDecimal(d.q) \o [i \in 1..(4 - Len(low)) |-> "0"] \o low

\* num / den rounded down, for a quotient below 2^(i+1) added to q, and whether
\* a remainder is left
RECURSIVE NatQuoBits(_, _, _, _)
NatQuoBits(num, den, i, q) ==
    IF i < 0 THEN [q |-> q, sticky |-> num # <<>>]
    ELSE LET d == NatShl(den, i)
         IN  IF NatCmp(num, d) >= 0
             THEN NatQuoBits(NatSub(num, d), den, i - 1, q + Pow2[i])
             ELSE NatQuoBits(num, den, i - 1, q)

\* number of bits to drop from q to bring it below 2^24
RECURSIVE ExcessBits(_)
ExcessBits(q) == IF q < Pow2[24] THEN 0 ELSE 1 + ExcessBits(q \div 2)

\* the f32 nearest to (q + f) * 2^e, ties to even, where 2^25 <= q < 2^27,
\* 0 <= f < 1 and sticky says f > 0: below 2^-126 the spacing stays 2^-149
\* (subnormals, then zero), above the largest finite value comes infinity
RoundBits(neg, q, e, sticky) ==
    LET excess == ExcessBits(q)
        low == -149 - e
        k == IF low > excess THEN low ELSE excess
        kk == IF k > 28 THEN 28 ELSE k
        m0 == q \div Pow2[kk]
        rem == q % Pow2[kk]
        half == Pow2[kk - 1]
        up == \/ rem > half
              \/ rem = half /\ (sticky \/ m0 % 2 = 1)
        m1 == IF up THEN m0 + 1 ELSE m0
        m == IF m1 = Pow2[24] THEN Pow2[23] ELSE m1
        ex == IF m1 = Pow2[24] THEN e + k + 1 ELSE e + k
    IN  IF m = 0 THEN WithSign(F32Zero, neg)
        ELSE IF ex > 104 THEN WithSign(F32Inf, neg)
        ELSE WithSign(F32(m, ex), neg)

\* the f32 nearest to (num / den) * 2^e2, with the sign neg
RoundRatio(neg, num, den, e2) ==
    IF num = <<>> THEN WithSign(F32Zero, neg)
    ELSE LET t == NatBits(num) - NatBits(den) - 26
             n == IF t < 0 THEN NatShl(num, -t) ELSE num
             d == IF t > 0 THEN NatShl(den, t) ELSE den
             quo == NatQuoBits(n, d, 26, 0)
         IN  RoundBits(neg, quo.q, t + e2, quo.sticky)

UpperCase == <<"A", "B", "C", "D", "E", "F", "G", "H", "I", "J", "K", "L", "M",
               "N", "O", "P", "Q", "R", "S", "T", "U", "V", "W", "X", "Y", "Z">>

LowerCase == <<"a", "b", "c", "d", "e", "f", "g", "h", "i", "j", "k", "l", "m",
               "n", "o", "p", "q", "r", "s", "t", "u", "v", "w", "x", "y", "z">>

to_ascii_lowercase(c) ==
    IF \E i \in 1..26 : UpperCase[i] = c
    THEN LowerCase[CHOOSE i \in 1..26 : UpperCase[i] = c]
    ELSE c

\* the exponent digits read as dec2flt reads them: a value that has reached
\* 2^16 takes no further digit
RECURSIVE ExponentValue(_)
ExponentValue(ds) ==
    IF ds = <<>> THEN 0
    ELSE LET acc == ExponentValue(Front(ds))
         IN  IF acc < Pow2[16] THEN 10 * acc + DigitValue(Last(ds)) ELSE acc

\* the digits from the first one that is not 0 on
StripZeros(ds) ==
    LET at == {i \in 1..Len(ds) : ds[i] # "0"}
    IN  IF at = {} THEN <<>>
        ELSE SubSeq(ds, CHOOSE i \in at : \A j \in at : i <= j, Len(ds))

\* the decimal digits * 10^exp10 rounded to the nearest f32; at 10^39 and above
\* that is infinity, below 10^-46 zero
parse_decimal(neg, digits, exp10) ==
    LET sig == StripZeros(digits)
        d == NatFromDigits(sig)
    IN  IF sig = <<>> THEN WithSign(F32Zero, neg)
        ELSE IF exp10 >= 39 THEN WithSign(F32Inf, neg)
        ELSE IF Len(sig) + exp10 <= -46 THEN WithSign(F32Zero, neg)
        ELSE IF exp10 >= 0 THEN RoundRatio(neg, NatMul(d, NatPow10(exp10)), <<1>>, 0)
        ELSE RoundRatio(neg, d, NatPow10(-exp10), 0)

\* Number ::= (Digit+ | Digit+ '.' Digit* | Digit* '.' Digit+) Exp?
\* Exp    ::= 'e' Sign? Digit+          (s is in lower case, its sign taken off)
parse_number(neg, s) ==
    LET es == {i \in 1..Len(s) : s[i] = "e"}
        epos == IF es = {} THEN Len(s) + 1 ELSE CHOOSE i \in es : \A j \in es : i <= j
        mant == SubSeq(s, 1, epos - 1)
        exp == SubSeq(s, epos + 1, Len(s))
        exp_signed == exp # <<>> /\ exp[1] \in {"+", "-"}
        exp_digits == IF exp_signed THEN Tail(exp) ELSE exp
        dots == {i \in 1..Len(mant) : mant[i] = "."}
        dot == IF dots = {} THEN Len(mant) + 1 ELSE CHOOSE i \in dots : TRUE
        int_digits == SubSeq(mant, 1, dot - 1)
        frac_digits == SubSeq(mant, dot + 1, Len(mant))
        exp_number == IF exp_signed /\ exp[1] = "-" THEN -ExponentValue(exp_digits)
                      ELSE ExponentValue(exp_digits)
    IN  IF \/ \E i \in 1..Len(mant) : mant[i] \notin DigitChars \cup {"."}
           \/ Cardinality(dots) > 1
           \/ int_digits \o frac_digits = <<>>
           \/ es # {} /\ exp_digits = <<>>
           \/ \E i \in 1..Len(exp_digits) : exp_digits[i] \notin DigitChars
        THEN None
        ELSE Some(parse_decimal(neg, int_digits \o frac_digits,
                                exp_number - Len(frac_digits)))

\* str::parse::<f32> (main.rs lines 289 and 299):
\* Float ::= Sign? ('inf' | 'infinity' | 'nan' | Number), letters in any case;
\* the value is the f32 nearest to the decimal number
parse_f32(txt) ==
    LET signed == txt # <<>> /\ txt[1] \in {"+", "-"}
        neg == signed /\ txt[1] = "-"
        body == IF signed THEN Tail(txt) ELSE txt
        s == [i \in 1..Len(body) |-> to_ascii_lowercase(body[i])]
    IN  IF s = <<>> THEN None
        ELSE IF s \in {<<"i", "n", "f">>, <<"i", "n", "f", "i", "n", "i", "t", "y">>}
        THEN Some(WithSign(F32Inf, neg))
        ELSE IF s = <<"n", "a", "n">> THEN Some(F32NaN)
        ELSE parse_number(neg, s)

\* f32 multiplication (main.rs lines 290 and 300): NaN from a NaN and from
\* infinity times zero, else the exact product rounded to the nearest f32, the
\* sign being negative when exactly one factor's is
mul_f32(a, b) ==
    LET neg == a.neg # b.neg
    IN  IF a.cls = "nan" \/ b.cls = "nan" THEN F32NaN
        ELSE IF a.cls = "inf" \/ b.cls = "inf"
        THEN IF (a.cls = "finite" /\ a.m = 0) \/ (b.cls = "finite" /\ b.m = 0)
             THEN F32NaN
             ELSE WithSign(F32Inf, neg)
        ELSE RoundRatio(neg, NatMul(NatFromInt(a.m), NatFromInt(b.m)), <<1>>,
                        a.e + b.e)

\* the magnitude m * 2^e rounded to six decimals, ties to even
FixedSix(m, e) ==
    LET n == NatMul(NatFromInt(m), NatFromInt(1000000))
        q == IF e >= 0 THEN NatShl(n, e) ELSE NatShrRound(n, -e)
        ds == NatToDecimal(q)
        padded == [i \in 1..(7 - Len(ds)) |-> "0"] \o ds
    IN  SubSeq(padded, 1, Len(padded) - 6) \o <<".">>
          \o SubSeq(padded, Len(padded) - 5, Len(padded))

\* format!("{:.6}", x) (main.rs lines 291 and 301)
format_6(x) ==
    IF x.cls = "nan" THEN <<"N", "a", "N">>
    ELSE IF x.cls = "inf"
    THEN (IF x.neg THEN <<"-">> ELSE <<>>) \o <<"i", "n", "f">>
    ELSE (IF x.neg THEN <<"-">> ELSE <<>>) \o FixedSix(x.m, x.e)

\* the test without its tolerance: any scale other than 1.0 rescales
scale_differs_from_one(s) == s # F32One

\* main.rs line 284: (scale - 1.0).abs() > f32::EPSILON, EPSILON = 2^-23.
\* A comparison with NaN is false.  The subtraction is exact for
\* 0.5 <= scale <= 2; for any other scale the difference is at least 0.5
\* before and after rounding.
scale_differs(s) ==
    IF s.cls = "nan" THEN FALSE
    ELSE IF s.cls = "inf" \/ s.neg \/ s.m = 0 THEN TRUE
    ELSE IF s.e = -23 THEN s.m - Pow2[23] > 1
    ELSE IF s.e = -24 /\ s.m >= Pow2[23] THEN Pow2[24] - s.m > 2
    ELSE TRUE

(***************************************************************************)
(* main.rs lines 282-305: the SVG width/height rescale                     *)
(***************************************************************************)
QUOTE == "\""

WidthAttr == <<"w", "i", "d", "t", "h", "=", QUOTE>>

HeightAttr == <<"h", "e", "i", "g", "h", "t", "=", QUOTE>>

\* str::find: the first position from `from` on where needle starts, 0 if none
RECURSIVE FindFrom(_, _, _)
FindFrom(hay, needle, from) ==
    IF from + Len(needle) - 1 > Len(hay) THEN 0
    ELSE IF SubSeq(hay, from, from + Len(needle) - 1) = needle THEN from
    ELSE FindFrom(hay, needle, from + 1)

\* String::replace_range(start..end, with), positions counted from 1, end excluded
replace_range(s, start, end, with) ==
    SubSeq(s, 1, start - 1) \o with \o SubSeq(s, end, Len(s))

\* lines 285-294 (width) and 295-304 (height)
rescale_attr(out_svg, attr, s) ==
    LET pos == FindFrom(out_svg, attr, 1)
        start == pos + Len(attr)
        end == FindFrom(out_svg, <<QUOTE>>, start)
        old == parse_f32(SubSeq(out_svg, start, end - 1))
    IN  IF pos = 0 \/ end = 0 \/ ~old.some THEN out_svg
        ELSE replace_range(out_svg, start, end, format_6(mul_f32(old.val, s)))

\* lines 283-305
rescale_svg(markup, s) ==
    IF scale_differs(s)
    THEN rescale_attr(rescale_attr(markup, WidthAttr, s), HeightAttr, s)
    ELSE markup

(***************************************************************************)
(* Inputs of the checked calls.                                            *)
(***************************************************************************)
\* a kept letter, the separator, the kept '.', and two characters not kept
PrefixAlphabet == {"a", "-", ".", "/", " "}

PrefixTexts == Texts(PrefixAlphabet, MaxLen)

\* the texts the specification names
PrefixExamples ==
    {<<"a", "/", "/", "b">>,
     <<"a", " ", "-", "b">>,
     <<"-", "/", "a", "/", "-">>,
     <<"R", "e", "p", "o", "r", "t", " ", "2", "0", "2", "4">>,
     <<"r", "_", "1", ".", "t", "a", "r", ".", "g", "z">>}

\* input paths tried together with a --prefix
PathSamples == {<<>>, <<"a", ".", "a">>, <<".", ".">>}

\* a page number beyond every document checked, of two digits
BigPage == 12

PageNumbers == 0..(MaxTotal + 1) \cup {BigPage}

(***************************************************************************)
(* SpecPages: one call of validate_requested_pages(pages, total).          *)
(***************************************************************************)
InitPages ==
    /\ pages \in Texts(PageNumbers, MaxReq)
    /\ total \in 0..MaxTotal
    /\ prefix = None
    /\ input = <<>>
    /\ scale = F32One
    /\ quiet = FALSE
    /\ svg = <<>>
    /\ env = None
    /\ run = None
    /\ ret = Pending

CallValidate ==
    /\ ret = Pending
    /\ ret' = [fn |-> "validate_requested_pages",
               val |-> validate_requested_pages(pages, total)]
    /\ UNCHANGED <<pages, total, prefix, input, scale, quiet, svg, env, run>>

SpecPages == InitPages /\ [][CallValidate]_vars

(***************************************************************************)
(* SpecPrefix: one call of sanitize_prefix_raw(prefix) or of               *)
(* resolve_prefix(prefix, input).                                          *)
(***************************************************************************)
InitPrefix ==
    /\ \/ /\ prefix = None
          /\ input \in PrefixTexts \cup PrefixExamples
       \/ /\ prefix \in {Some(t) : t \in PrefixTexts \cup PrefixExamples}
          /\ input \in PathSamples
    /\ pages = <<>>
    /\ total = 0
    /\ scale = F32One
    /\ quiet = FALSE
    /\ svg = <<>>
    /\ env = None
    /\ run = None
    /\ ret = Pending

CallSanitize ==
    /\ ret = Pending
    /\ prefix.some
    /\ ret' = [fn |-> "sanitize_prefix_raw",
               val |-> sanitize_prefix_raw(prefix.val)]
    /\ UNCHANGED <<pages, total, prefix, input, scale, quiet, svg, env, run>>

CallResolvePrefix ==
    /\ ret = Pending
    /\ ret' = [fn |-> "resolve_prefix", val |-> resolve_prefix(prefix, input)]
    /\ UNCHANGED <<pages, total, prefix, input, scale, quiet, svg, env, run>>

NextPrefix == CallSanitize \/ CallResolvePrefix

SpecPrefix == InitPrefix /\ [][NextPrefix]_vars

(***************************************************************************)
(* SpecSvg: one rescale of a page's markup, as process_svg does between    *)
(* convert and fs::write.                                                  *)
(***************************************************************************)
\* a digit, the point, the exponent letter and the sign: texts over them that
\* parse ("9e9", "-.9", "9.9") and that do not ("e9", "9-", ".")
ValueAlphabet == {"9", ".", "e", "-"}

\* signs, exponents, infinities, NaN, another case of the letters, values that
\* round to zero or to infinity, and texts that are no number
FloatExamples ==
    {<<"+", "5">>, <<"+", ".", "5">>, <<"-", "0">>, <<"1", "e", "2">>,
     <<"1", "E", "+", "2">>, <<"5", "e", "-", "1">>, <<"i", "n", "f">>,
     <<"-", "I", "n", "f">>, <<"i", "n", "f", "i", "n", "i", "t", "y">>,
     <<"N", "a", "N">>, <<"1", "e", "3", "9">>, <<"1", "e", "-", "4", "6">>,
     <<"0", ".", "0", "0", "0", "0", "0", "0", "0", "0", "0", "1">>,
     <<"3", "e", "3", "8">>, <<"p">>, <<"i", "n">>, <<"+">>, <<"5", "p">>}

AttrValues == Texts(ValueAlphabet, MaxValLen) \cup FloatExamples

\* values of the attribute that is not being varied
OtherValues == {<<"5", "0">>, <<"p">>, <<"9", ".", "9">>}

Width(v) == WidthAttr \o v \o <<QUOTE>>

Height(v) == HeightAttr \o v \o <<QUOTE>>

Open == <<"<", "s", " ">>

\* markup shapes around a varied value v and another value o
Shapes(v, o) ==
    {Open \o Width(v) \o <<" ">> \o Height(o) \o <<">">>,
     Open \o Width(o) \o <<" ">> \o Height(v) \o <<">">>,
     Open \o Height(v) \o <<" ">> \o Width(o) \o <<">">>,
     Open \o Width(v) \o <<">">>,
     Open \o Height(v) \o <<">">>,
     Open \o WidthAttr \o v \o <<" ">> \o Height(o) \o <<">">>,
     Open \o <<"s", "-">> \o Width(v) \o <<" ">> \o Width(o) \o <<" ">>
          \o Height(o) \o <<" ">> \o Height(v) \o <<">">>,
     Open \o HeightAttr \o v \o <<">">>}

\* width="100.0" height="50", the markup the specification names
ExampleMarkup ==
    Width(<<"1", "0", "0", ".", "0">>) \o <<" ">> \o Height(<<"5", "0">>)

Markups ==
    UNION {Shapes(v, o) : v \in AttrValues, o \in OtherValues}
        \cup {ExampleMarkup, Open \o <<">">>}

\* scales around 1.0 (EPSILON = 2^-23 is the gap from 1.0 to the next f32) and
\* plain ones
ScaleTwo == F32(Pow2[23], -22)
ScaleHalf == F32(Pow2[23], -24)
ScaleOneAndHalf == F32(3 * Pow2[22], -23)
ScaleOnePlusEps == F32(Pow2[23] + 1, -23)
ScaleOnePlus2Eps == F32(Pow2[23] + 2, -23)
ScaleOneMinusHalfEps == F32(Pow2[24] - 1, -24)
ScaleOneMinusEps == F32(Pow2[24] - 2, -24)
ScaleOneMinus3HalfEps == F32(Pow2[24] - 3, -24)

\* positive finite scales
PlainScales ==
    {F32One, ScaleTwo, ScaleHalf, ScaleOneAndHalf, ScaleOnePlusEps,
     ScaleOnePlus2Eps, ScaleOneMinusHalfEps, ScaleOneMinusEps,
     ScaleOneMinus3HalfEps}

\* --scale is parsed as f32 as well: a negative scale, zero, infinity, NaN
Scales == PlainScales \cup {WithSign(ScaleTwo, TRUE), F32Zero, F32Inf, F32NaN}

InitSvg ==
    /\ svg \in Markups
    /\ scale \in Scales
    /\ quiet = FALSE
    /\ pages = <<>>
    /\ total = 0
    /\ prefix = None
    /\ input = <<>>
    /\ env = None
    /\ run = None
    /\ ret = Pending

CallRescale ==
    /\ ret = Pending
    /\ ret' = [fn |-> "rescale_svg", val |-> rescale_svg(svg, scale)]
    /\ UNCHANGED <<pages, total, prefix, input, scale, quiet, svg, env, run>>

SpecSvg == InitSvg /\ [][CallRescale]_vars

(***************************************************************************)
(* Spec: whole runs of the tool (main.rs run, load_pdf_and_pages,          *)
(* process_png, process_svg).  The tool is run once per format on the same *)
(* command line, document and environment, PNG first.                      *)
(*                                                                         *)
(* env is what the run meets outside the program: the step of loading that *)
(* fails, if any, and the set of page indices whose file cannot be         *)
(* written.                                                                *)
(***************************************************************************)
Formats == {"png", "svg"}

LoadFailures == {"create_dir", "read", "sniff", "parse"}

\* command lines tried: an inferred prefix and a given one
RunPrefixCases ==
    {<<None, <<"d", "/", "R", " ", "2", ".", "p", "d", "f">>>>,
     <<Some(<<"a", "/", "/", "b">>), <<"x">>>>}

RunScales == {F32One, ScaleTwo}

\* hayro_svg::convert: the markup of page idx at scale 1.0 (an outside
\* collaborator; pages differ in width)
convert(idx) ==
    Open \o Width(to_string(idx + 1) \o <<"0">>) \o <<" ">>
         \o Height(<<"5", "0">>) \o <<">">>

\* hayro::render and take_png: the bytes stand for the page and the render
\* settings they were made with
render(idx, render_settings) ==
    [page |-> idx, x_scale |-> render_settings.x_scale,
     y_scale |-> render_settings.y_scale]

NewRun ==
    [pc |-> "create_dir",
     parse_attempted |-> FALSE,
     page_set |-> None,
     out_prefix |-> <<>>,
     idx |-> 0,
     collected |-> 0,
     files_written |-> 0,
     rendered |-> <<>>,
     write_attempts |-> <<>>,
     written |-> <<>>,
     summary |-> None,
     error |-> None]

Finished(r) == r.pc \in {"done", "failed"}

\* the run of format f may take a step: PNG first, then SVG
Turn(f) == ~Finished(run[f]) /\ (f = "svg" => Finished(run["png"]))

\* log_event, main.rs lines 88-97: an Info line is dropped when QUIET is set
\* (run stores --quiet into it at line 162), an Error line never
log_event(q, level, line) == IF level = "Info" /\ q THEN None ELSE Some(line)

\* log_render_summary, main.rs lines 99-110
log_render_summary(q, kind, count) ==
    log_event(q, "Info", [kind |-> kind, count |-> count])

\* AppError::new(tag, message), returned up to main, which logs it and exits 1
Fail(r, tag, message) ==
    [r EXCEPT !.pc = "failed", !.error = Some([tag |-> tag, message |-> message])]

OsError == "os error"

Init ==
    /\ total \in 0..MaxTotal
    /\ pages \in Texts(0..(MaxTotal + 1), MaxRunReq)
    /\ \E c \in RunPrefixCases : prefix = c[1] /\ input = c[2]
    /\ scale \in RunScales
    /\ quiet \in BOOLEAN
    /\ svg = <<>>
    /\ ret = Pending
    /\ env \in {[fail |-> s, write_fails |-> {}] : s \in LoadFailures}
           \cup {[fail |-> "none", write_fails |-> w] : w \in SUBSET (0..(total - 1))}
    /\ run = [f \in Formats |-> NewRun]

\* run, lines 166-176
CreateDir(f) ==
    /\ Turn(f)
    /\ run[f].pc = "create_dir"
    /\ run' = [run EXCEPT ![f] =
                 IF env.fail = "create_dir"
                 THEN Fail(@, "FileSystem",
                           <<"Failed to create output directory: ", OsError>>)
                 ELSE [@ EXCEPT !.pc = "read"]]
    /\ UNCHANGED <<pages, total, prefix, input, scale, quiet, svg, env, ret>>

\* load_pdf_and_pages, lines 190-191
ReadInput(f) ==
    /\ Turn(f)
    /\ run[f].pc = "read"
    /\ run' = [run EXCEPT ![f] =
                 IF env.fail = "read"
                 THEN Fail(@, "FileSystem", <<"Failed to read input file: ", OsError>>)
                 ELSE [@ EXCEPT !.pc = "sniff"]]
    /\ UNCHANGED <<pages, total, prefix, input, scale, quiet, svg, env, ret>>

\* mutant: the bytes are handed to Pdf::new before the format is looked at
sniff_after_parse(r, is_pdf) ==
    IF ~is_pdf
    THEN Fail([r EXCEPT !.parse_attempted = TRUE], "FileType",
              <<"Input file is not a PDF">>)
    ELSE [r EXCEPT !.pc = "parse"]

\* lines 194-200
sniff(r, is_pdf) ==
    IF ~is_pdf THEN Fail(r, "FileType", <<"Input file is not a PDF">>)
    ELSE [r EXCEPT !.pc = "parse"]

\* load_pdf_and_pages, lines 194-200
SniffFormat(f) ==
    /\ Turn(f)
    /\ run[f].pc = "sniff"
    /\ run' = [run EXCEPT ![f] = sniff(@, env.fail # "sniff")]
    /\ UNCHANGED <<pages, total, prefix, input, scale, quiet, svg, env, ret>>

\* load_pdf_and_pages, lines 202-204
ParsePdf(f) ==
    /\ Turn(f)
    /\ run[f].pc = "parse"
    /\ run' = [run EXCEPT ![f] =
                 IF env.fail = "parse"
                 THEN Fail([@ EXCEPT !.parse_attempted = TRUE], "PDF",
                           <<"Failed to read PDF: ", OsError>>)
                 ELSE [@ EXCEPT !.pc = "select", !.parse_attempted = TRUE]]
    /\ UNCHANGED <<pages, total, prefix, input, scale, quiet, svg, env, ret>>

\* mutant: the request is validated even when it is empty
page_set_always_validated(requested, n) ==
    LET validated == validate_requested_pages(requested, n)
    IN  IF validated.ok THEN Ok(Some(validated.val)) ELSE validated

\* load_pdf_and_pages, lines 206-212
page_set_of(requested, n) ==
    IF requested = <<>> THEN Ok(None)
    ELSE LET validated == validate_requested_pages(requested, n)
         IN  IF validated.ok THEN Ok(Some(validated.val)) ELSE validated

\* load_pdf_and_pages, lines 206-214
SelectPages(f) ==
    /\ Turn(f)
    /\ run[f].pc = "select"
    /\ LET res == page_set_of(pages, total)
       IN  run' = [run EXCEPT ![f] =
                     IF res.ok THEN [@ EXCEPT !.pc = "prepare", !.page_set = res.val]
                     ELSE Fail(@, "PageValidation", res.msg)]
    /\ UNCHANGED <<pages, total, prefix, input, scale, quiet, svg, env, ret>>

\* process_png, lines 227-232; process_svg, lines 271-273
Prepare(f) ==
    /\ Turn(f)
    /\ run[f].pc = "prepare"
    /\ run' = [run EXCEPT ![f] =
                 [@ EXCEPT !.pc = "pages",
                           !.out_prefix = resolve_prefix(prefix, input),
                           !.files_written = 0]]
    /\ UNCHANGED <<pages, total, prefix, input, scale, quiet, svg, env, ret>>

\* process_png, lines 238-243: the filter of the iterator chain
png_filter(page_set, idx) ==
    IF page_set.some THEN idx \in page_set.val ELSE TRUE

\* mutant: the 0-based index is looked up as a 1-based page number
svg_skip_one_based(page_set, idx) == page_set.some /\ (idx + 1) \notin page_set.val

\* process_svg, lines 276-280: the test that skips a page
svg_skip(page_set, idx) == page_set.some /\ idx \notin page_set.val

\* mutant: the file is named by the 0-based index
out_name_zero_based(out_prefix, idx, ext) == out_prefix \o to_string(idx) \o <<".", ext>>

\* format!("{}{}.png", prefix, idx + 1), and the same with svg
out_name(out_prefix, idx, ext) == out_prefix \o to_string(idx + 1) \o <<".", ext>>

\* the indices the PNG iterator has yet to yield
PngRest(r) == {i \in r.idx..(total - 1) : png_filter(r.page_set, i)}

\* mutant: a failed write is dropped and the next page is taken
png_written_error_ignored(tried, file, ok) ==
    IF ok THEN [tried EXCEPT !.written = Append(@, file), !.collected = @ + 1]
    ELSE tried

\* lines 249-251 with collect's early return at the first Err
png_written(tried, file, ok) ==
    IF ok THEN [tried EXCEPT !.written = Append(@, file), !.collected = @ + 1]
    ELSE Fail(tried, "FileSystem", <<"Failed to write PNG: ", OsError>>)

\* process_png, lines 244-252: collect pulls the next selected page through the
\* map closure; the first Err ends collect and returns from process_png
PngPage ==
    /\ Turn("png")
    /\ run["png"].pc = "pages"
    /\ PngRest(run["png"]) # {}
    /\ LET r == run["png"]
           idx == CHOOSE i \in PngRest(r) : \A j \in PngRest(r) : i <= j
           png_bytes == render(idx, [x_scale |-> scale, y_scale |-> scale])
           file == [name |-> out_name(r.out_prefix, idx, "png"), data |-> png_bytes]
           tried == [r EXCEPT !.idx = idx + 1,
                              !.rendered = Append(@, idx),
                              !.write_attempts = Append(@, idx)]
       IN  run' = [run EXCEPT !["png"] =
                     png_written(tried, file, idx \notin env.write_fails)]
    /\ UNCHANGED <<pages, total, prefix, input, scale, quiet, svg, env, ret>>

\* process_png, lines 253-258: the iterator is exhausted, the Vec's length is
\* the count of the summary
PngCollect ==
    /\ Turn("png")
    /\ run["png"].pc = "pages"
    /\ PngRest(run["png"]) = {}
    /\ LET r == run["png"]
           files_written == r.collected
       IN  run' = [run EXCEPT !["png"] =
                     [r EXCEPT !.pc = "done",
                               !.idx = total,
                               !.files_written = files_written,
                               !.summary = log_render_summary(quiet, "PNG",
                                                              files_written)]]
    /\ UNCHANGED <<pages, total, prefix, input, scale, quiet, svg, env, ret>>

\* process_svg, lines 275-280: a page not selected
SvgSkip ==
    /\ Turn("svg")
    /\ run["svg"].pc = "pages"
    /\ run["svg"].idx < total
    /\ svg_skip(run["svg"].page_set, run["svg"].idx)
    /\ run' = [run EXCEPT !["svg"].idx = @ + 1]
    /\ UNCHANGED <<pages, total, prefix, input, scale, quiet, svg, env, ret>>

\* lines 309-311
svg_written(tried, file, ok) ==
    IF ok THEN [tried EXCEPT !.written = Append(@, file),
                             !.files_written = @ + 1,
                             !.idx = @ + 1]
    ELSE Fail(tried, "FileSystem", <<"Failed to write SVG: ", OsError>>)

\* process_svg, lines 282-311: a selected page
SvgPage ==
    /\ Turn("svg")
    /\ run["svg"].pc = "pages"
    /\ run["svg"].idx < total
    /\ ~svg_skip(run["svg"].page_set, run["svg"].idx)
    /\ LET r == run["svg"]
           idx == r.idx
           out_svg == rescale_svg(convert(idx), scale)
           file == [name |-> out_name(r.out_prefix, idx, "svg"), data |-> out_svg]
           tried == [r EXCEPT !.rendered = Append(@, idx),
                              !.write_attempts = Append(@, idx)]
       IN  run' = [run EXCEPT !["svg"] =
                     svg_written(tried, file, idx \notin env.write_fails)]
    /\ UNCHANGED <<pages, total, prefix, input, scale, quiet, svg, env, ret>>

\* process_svg, lines 314-316: the loop has ended
SvgFinish ==
    /\ Turn("svg")
    /\ run["svg"].pc = "pages"
    /\ run["svg"].idx = total
    /\ LET r == run["svg"]
       IN  run' = [run EXCEPT !["svg"] =
                     [r EXCEPT !.pc = "done",
                               !.summary = log_render_summary(quiet, "SVG",
                                                              r.files_written)]]
    /\ UNCHANGED <<pages, total, prefix, input, scale, quiet, svg, env, ret>>

Next ==
    \/ \E f \in Formats :
          \/ CreateDir(f)
          \/ ReadInput(f)
          \/ SniffFormat(f)
          \/ ParsePdf(f)
          \/ SelectPages(f)
          \/ Prepare(f)
    \/ PngPage
    \/ PngCollect
    \/ SvgSkip
    \/ SvgPage
    \/ SvgFinish

Spec == Init /\ [][Next]_vars

(***************************************************************************)
(* Claims about validate_requested_pages (SpecPages).                      *)
(***************************************************************************)
Validated == ret # Pending /\ ret.fn = "validate_requested_pages"

\* the requested numbers that are 0 or beyond the document
BadPages == {pages[i] : i \in {k \in 1..Len(pages) : pages[k] = 0 \/ pages[k] > total}}

\* positions of the element c in a text
Positions(txt, c) == {i \in 1..Len(txt) : txt[i] = c}

\* the number a text of digits denotes
RECURSIVE DecValue(_)
DecValue(ds) ==
    IF ds = <<>> THEN 0
    ELSE 10 * DecValue(SubSeq(ds, 1, Len(ds) - 1)) + DigitValue(Last(ds))

\* the numerals of a list written "n1, n2, ..., nk"
RECURSIVE SplitList(_)
SplitList(txt) ==
    LET commas == Positions(txt, ",")
    IN  IF commas = {} THEN <<txt>>
        ELSE LET c == CHOOSE i \in commas : \A j \in commas : i <= j
             IN  <<SubSeq(txt, 1, c - 1)>> \o SplitList(SubSeq(txt, c + 2, Len(txt)))

IsNumeral(txt) == txt # <<>> /\ \A i \in 1..Len(txt) : txt[i] \in DigitChars

\* the message reads: head, a list of numerals, middle, a numeral, end
WellFormedMessage(msg) ==
    /\ Len(msg) >= 5
    /\ msg[1] = MsgHead
    /\ Last(msg) = MsgEnd
    /\ Cardinality(Positions(msg, MsgMid)) = 1
    /\ LET k == CHOOSE i \in Positions(msg, MsgMid) : TRUE
           lst == SubSeq(msg, 2, k - 1)
       IN  /\ \A i \in Positions(lst, ",") : i < Len(lst) /\ lst[i + 1] = " "
           /\ \A i \in Positions(lst, " ") : i > 1 /\ lst[i - 1] = ","
           /\ \A i \in 1..Len(SplitList(lst)) : IsNumeral(SplitList(lst)[i])
           /\ IsNumeral(SubSeq(msg, k + 1, Len(msg) - 1))

ListedNumbers(msg) ==
    LET k == CHOOSE i \in Positions(msg, MsgMid) : TRUE
        parts == SplitList(SubSeq(msg, 2, k - 1))
    IN  [i \in 1..Len(parts) |-> DecValue(parts[i])]

StatedTotal(msg) ==
    LET k == CHOOSE i \in Positions(msg, MsgMid) : TRUE
    IN  DecValue(SubSeq(msg, k + 1, Len(msg) - 1))

\* C1: a non-empty request with a problematic number (0, or above total) fails
\* with one message that lists every distinct problematic number exactly once,
\* in ascending order, lists no valid number, and states the range 1 to total.
C1_AllProblematicListed ==
    (Validated /\ pages # <<>> /\ BadPages # {}) =>
        /\ ~ret.val.ok
        /\ WellFormedMessage(ret.val.msg)
        /\ LET nums == ListedNumbers(ret.val.msg)
           IN  /\ \A i \in 1..(Len(nums) - 1) : nums[i] < nums[i + 1]
               /\ {nums[i] : i \in 1..Len(nums)} = BadPages
        /\ StatedTotal(ret.val.msg) = total

\* a request with a repeated bad number, a second bad number out of order and
\* a valid number, answered with exactly two listed numbers
C1_Witness ==
    /\ Validated
    /\ pages = <<BigPage, 0, BigPage>>
    /\ total = MaxTotal
    /\ ~ret.val.ok
    /\ ListedNumbers(ret.val.msg) = <<0, BigPage>>

\* C2: a non-empty request whose numbers all lie in 1..total returns Ok with
\* exactly the set of p - 1 for p requested; every index i returned satisfies
\* 0 <= i < total.
C2_ValidGivesZeroBasedSet ==
    (Validated /\ pages # <<>> /\ BadPages = {}) =>
        /\ ret.val.ok
        /\ \A i \in 0..(MaxTotal + BigPage) :
              i \in ret.val.val <=> \E k \in 1..Len(pages) : pages[k] = i + 1
        /\ \A i \in ret.val.val : 0 <= i /\ i < total

\* the last page requested twice and the first once: two indices come back
C2_Witness ==
    /\ Validated
    /\ total = MaxTotal
    /\ pages = <<total, 1, total>>
    /\ ret.val.ok
    /\ ret.val.val = {0, total - 1}

(***************************************************************************)
(* Claims about sanitize_prefix_raw and resolve_prefix (SpecPrefix).       *)
(***************************************************************************)
Sanitized == ret # Pending /\ ret.fn = "sanitize_prefix_raw"

Resolved == ret # Pending /\ ret.fn = "resolve_prefix"

\* C4: the sanitizer's result holds only ASCII letters, digits, '.', '_' and
\* '-', never two adjacent '-', and neither starts nor ends with '-'.
C4_SanitizedShape ==
    Sanitized =>
        LET r == ret.val
        IN  /\ \A i \in 1..Len(r) :
                  r[i] \in Letters \cup DigitChars \cup {".", "_", "-"}
            /\ \A i \in 1..(Len(r) - 1) : ~(r[i] = "-" /\ r[i + 1] = "-")
            /\ r # <<>> => (r[1] # "-" /\ r[Len(r)] # "-")

\* 'a -b': the first pass leaves "a--b", which the second pass collapses
C4_Witness ==
    /\ Sanitized
    /\ prefix = Some(<<"a", " ", "-", "b">>)
    /\ FirstPass(prefix.val, 1, <<>>, FALSE) = <<"a", "-", "-", "b">>
    /\ ret.val = <<"a", "-", "b">>

\* C5: resolve_prefix returns a non-empty text ending with exactly one '-';
\* what precedes that '-' is the sanitized --prefix if one was given, else the
\* sanitized file stem of the input path, and it is 'rendered' when that
\* sanitized value is empty or (no --prefix given) the path has no stem.
C5_PrefixShape ==
    Resolved =>
        LET r == ret.val
            stem == file_stem(input)
            san == IF prefix.some THEN sanitize_prefix_raw(prefix.val)
                   ELSE IF stem.some THEN sanitize_prefix_raw(stem.val)
                   ELSE <<>>
            part == SubSeq(r, 1, Len(r) - 1)
        IN  /\ Len(r) >= 2
            /\ r[Len(r)] = "-"
            /\ r[Len(r) - 1] # "-"
            /\ san # <<>> => part = san
            /\ san = <<>> => part = Rendered

\* a --prefix that sanitizes to nothing falls back to 'rendered-'
C5_Witness ==
    /\ Resolved
    /\ prefix = Some(<<"/", "-", " ">>)
    /\ ret.val = Append(Rendered, "-")

(***************************************************************************)
(* Claims about the SVG rescale (SpecSvg).                                 *)
(***************************************************************************)
Rescaled == ret # Pending /\ ret.fn = "rescale_svg"

Least(S) == CHOOSE x \in S : \A y \in S : x <= y

\* where the value of the first occurrence of attr="..." lies in the markup
ValueSpan(txt, attr) ==
    LET at == {i \in 1..(Len(txt) - Len(attr) + 1) :
                  SubSeq(txt, i, i + Len(attr) - 1) = attr}
        from == Least(at) + Len(attr)
        quotes == {j \in from..Len(txt) : txt[j] = QUOTE}
    IN  IF at = {} THEN None
        ELSE IF quotes = {} THEN None
        ELSE Some([from |-> from, to |-> Least(quotes) - 1])

\* a plain decimal number: digits around at most one point, at least one digit
IsPlainDecimal(v) ==
    /\ \A i \in 1..Len(v) : v[i] \in DigitChars \cup {"."}
    /\ Cardinality(Positions(v, ".")) <= 1
    /\ \E i \in 1..Len(v) : v[i] \in DigitChars

IsDigits(s) == s # <<>> /\ \A i \in 1..Len(s) : s[i] \in DigitChars

IsExponent(s) ==
    \/ IsDigits(s)
    \/ s # <<>> /\ s[1] \in {"+", "-"} /\ IsDigits(Tail(s))

IsSpecial(s) ==
    [i \in 1..Len(s) |-> to_ascii_lowercase(s[i])]
        \in {<<"i", "n", "f">>, <<"i", "n", "f", "i", "n", "i", "t", "y">>,
             <<"n", "a", "n">>}

IsUnsigned(s) ==
    \/ IsSpecial(s)
    \/ IsPlainDecimal(s)
    \/ \E k \in 1..Len(s) :
          /\ s[k] \in {"e", "E"}
          /\ IsPlainDecimal(SubSeq(s, 1, k - 1))
          /\ IsExponent(SubSeq(s, k + 1, Len(s)))

\* a text that parses as f32: an optional sign before inf, infinity or nan in
\* any case of the letters, or before a decimal number with an optional exponent
IsNumber(v) ==
    \/ IsUnsigned(v)
    \/ v # <<>> /\ v[1] \in {"+", "-"} /\ IsUnsigned(Tail(v))

\* the span of attr's value if that value is a number
NumberSpan(txt, attr, IsNum(_)) ==
    LET sp == ValueSpan(txt, attr)
    IN  IF sp.some /\ IsNum(SubSeq(txt, sp.val.from, sp.val.to)) THEN sp
        ELSE None

Splice(txt, sp, new) ==
    SubSeq(txt, 1, sp.from - 1) \o new \o SubSeq(txt, sp.to + 1, Len(txt))

\* the markup with the numeric width and height values v replaced by New(v),
\* every other character kept
Replaced(txt, IsNum(_), New(_)) ==
    LET w == NumberSpan(txt, WidthAttr, IsNum)
        h == NumberSpan(txt, HeightAttr, IsNum)
        wv == SubSeq(txt, w.val.from, w.val.to)
        hv == SubSeq(txt, h.val.from, h.val.to)
    IN  IF w.some /\ h.some
        THEN IF w.val.from < h.val.from
             THEN Splice(Splice(txt, h.val, New(hv)), w.val, New(wv))
             ELSE Splice(Splice(txt, w.val, New(wv)), h.val, New(hv))
        ELSE IF w.some THEN Splice(txt, w.val, New(wv))
        ELSE IF h.some THEN Splice(txt, h.val, New(hv))
        ELSE txt

\* exact decimal arithmetic on numbers held as digits, lowest first
RECURSIVE BigFromInt(_)
BigFromInt(n) == IF n = 0 THEN <<>> ELSE <<n % 10>> \o BigFromInt(n \div 10)

RECURSIVE BigMulSmall(_, _, _)
BigMulSmall(b, c, carry) ==
    IF b = <<>> THEN BigFromInt(carry)
    ELSE <<(b[1] * c + carry) % 10>>
           \o BigMulSmall(Tail(b), c, (b[1] * c + carry) \div 10)

RECURSIVE BigMulPow(_, _, _)
BigMulPow(b, c, k) == IF k = 0 THEN b ELSE BigMulPow(BigMulSmall(b, c, 0), c, k - 1)

RECURSIVE BigInc(_)
BigInc(b) ==
    IF b = <<>> THEN <<1>>
    ELSE IF b[1] < 9 THEN <<b[1] + 1>> \o Tail(b)
    ELSE <<0>> \o BigInc(Tail(b))

\* b / 10^t rounded to the nearest whole number, a tie to the even one
BigDropRounded(b, t) ==
    IF t = 0 THEN b
    ELSE IF t > Len(b) THEN <<>>
    ELSE LET kept == SubSeq(b, t + 1, Len(b))
             top == b[t]
             below == \E i \in 1..(t - 1) : b[i] # 0
             odd == kept # <<>> /\ kept[1] % 2 = 1
         IN  IF top > 5 \/ (top = 5 /\ (below \/ odd)) THEN BigInc(kept) ELSE kept

\* m * 2^e with the factors of two moved out of m
RECURSIVE OddForm(_, _)
OddForm(m, e) == IF m % 2 = 0 THEN OddForm(m \div 2, e + 1) ELSE F32(m, e)

\* millionths as text: at least one digit before the point and six after
MillionthsText(q) ==
    LET padded == q \o [i \in 1..(7 - Len(q)) |-> 0]
        n == Len(padded)
        big == [i \in 1..n |-> Digits[padded[n + 1 - i] + 1]]
    IN  SubSeq(big, 1, n - 6) \o <<".">> \o SubSeq(big, n - 5, n)

\* the number v times the scale s, exactly, written with six decimals
ExactScaled(v, s) ==
    LET dots == Positions(v, ".")
        d == IF dots = {} THEN 0 ELSE Len(v) - Least(dots)
        n == DecValue(SelectSeq(v, LAMBDA c : c \in DigitChars))
        o == OddForm(s.m, s.e)
        k == IF o.e < 0 THEN -o.e ELSE 0
        num == IF o.e < 0
               THEN BigMulPow(BigMulSmall(BigFromInt(n), o.m, 0), 5, k)
               ELSE BigMulPow(BigMulSmall(BigFromInt(n), o.m, 0), 2, o.e)
        shift == 6 - d - k
        q == IF shift >= 0 THEN (IF num = <<>> THEN <<>>
                                 ELSE [i \in 1..shift |-> 0] \o num)
             ELSE BigDropRounded(num, -shift)
    IN  MillionthsText(q)

\* the product of the value parsed as f32 and s, rounded to f32, written with
\* six decimals
F32Scaled(v, s) == format_6(mul_f32(parse_f32(v).val, s))

\* the f32 values within EPSILON = 2^-23 of 1.0: below 1.0 the f32 are 2^-24
\* apart, above it 2^-23
WithinEpsilonOfOne ==
    {F32One, ScaleOnePlusEps, ScaleOneMinusHalfEps, ScaleOneMinusEps}

\* |s - 1.0| > EPSILON, which no NaN satisfies
BeyondEpsilon(s) == s.cls # "nan" /\ s \notin WithinEpsilonOfOne

\* the first value of attr, if there is one, is a plain decimal or no number
PlainValue(txt, attr) ==
    LET sp == ValueSpan(txt, attr)
        v == SubSeq(txt, sp.val.from, sp.val.to)
    IN  sp.some => IsPlainDecimal(v) \/ ~IsNumber(v)

\* C9 as stated, for positive finite scales and plain decimal values: with a
\* scale other than 1.0 the first width and the first height value that parse
\* as numbers are each replaced by value times scale with six decimals,
\* everything else is kept; with scale 1.0 the markup is unchanged.
C9_Original ==
    (/\ Rescaled
     /\ scale \in PlainScales
     /\ PlainValue(svg, WidthAttr)
     /\ PlainValue(svg, HeightAttr)) =>
        IF scale # F32One
        THEN ret.val = Replaced(svg, IsPlainDecimal, LAMBDA v : ExactScaled(v, scale))
        ELSE ret.val = svg

\* C9 amended: with a scale more than f32::EPSILON away from 1.0 each of the
\* two values that parses as f32 is replaced, independently of the other, by
\* the f32 product of the parsed value and the scale written with six decimals
\* (inf, -inf or NaN when the product is no finite number), and every other
\* character is kept; with a scale within EPSILON of 1.0, or NaN, the markup
\* is unchanged.
C9_RescaleBeyondEpsilon ==
    Rescaled =>
        IF BeyondEpsilon(scale)
        THEN ret.val = Replaced(svg, IsNumber, LAMBDA v : F32Scaled(v, scale))
        ELSE ret.val = svg

\* width="100.0" height="50" at scale 2.0
C9_Witness ==
    /\ Rescaled
    /\ svg = ExampleMarkup
    /\ scale = ScaleTwo
    /\ ret.val = Width(<<"2", "0", "0", ".", "0", "0", "0", "0", "0", "0">>)
                   \o <<" ">>
                   \o Height(<<"1", "0", "0", ".", "0", "0", "0", "0", "0", "0">>)

(***************************************************************************)
(* Claims about whole runs (Spec).                                         *)
(***************************************************************************)
\* every requested number names a page of the document
RequestValid == \A k \in 1..Len(pages) : 1 <= pages[k] /\ pages[k] <= total

\* the 0-based indices the command line selects
SelectedPages ==
    IF pages = <<>> THEN 0..(total - 1)
    ELSE {pages[k] - 1 : k \in 1..Len(pages)}

ExpectedName(f, i) == resolve_prefix(prefix, input) \o to_string(i + 1) \o <<".", f>>

WrittenNames(r) == {r.written[j].name : j \in 1..Len(r.written)}

ErrorTag(r) == IF r.error.some THEN r.error.val.tag ELSE "none"

Ascending(s) == \A j \in 1..(Len(s) - 1) : s[j] < s[j + 1]

\* C3 as stated: for an empty request validate_requested_pages returns the
\* selection that filters nothing, and a run without --page writes one file
\* for every page.
C3_Original ==
    pages = <<>> =>
        LET v == validate_requested_pages(pages, total)
        IN  /\ v.ok
            /\ \A i \in 0..(total - 1) :
                  png_filter(Some(v.val), i) /\ ~svg_skip(Some(v.val), i)
            /\ \A f \in Formats :
                  run[f].pc = "done" =>
                      WrittenNames(run[f]) = {ExpectedName(f, i) : i \in 0..(total - 1)}

\* C3 amended: for an empty request validate_requested_pages returns Ok with
\* the empty set, which as a page set admits no page; load_pdf_and_pages does
\* not call it then and yields no page set, and the run writes one file for
\* every page of the document.
C3_EmptyRequestRendersAll ==
    pages = <<>> =>
        /\ validate_requested_pages(pages, total) = Ok({})
        /\ \A i \in 0..(total - 1) :
              ~png_filter(Some(validate_requested_pages(pages, total).val), i)
        /\ \A f \in Formats :
              /\ run[f].pc \in {"prepare", "pages", "done"} => run[f].page_set = None
              /\ run[f].pc = "done" =>
                    /\ WrittenNames(run[f]) = {ExpectedName(f, i) : i \in 0..(total - 1)}
                    /\ Len(run[f].written) = total

\* both runs of a document of MaxTotal pages without --page have ended well
C3_Witness ==
    /\ pages = <<>>
    /\ total = MaxTotal
    /\ \A f \in Formats : run[f].pc = "done" /\ Len(run[f].written) = MaxTotal

\* C6: a run that ends successfully has written exactly the files
\* prefix + (i+1) + '.' + ext for the selected indices i, each once and no
\* other, ext being the format; the summary's count is the number of distinct
\* selected pages.
C6_ExactFiles ==
    \A f \in Formats :
        run[f].pc = "done" =>
            /\ WrittenNames(run[f]) = {ExpectedName(f, i) : i \in SelectedPages}
            /\ Len(run[f].written) = Cardinality(SelectedPages)
            /\ \A i \in SelectedPages : 0 <= i /\ i < total
            /\ run[f].files_written = Cardinality(SelectedPages)
            /\ quiet => run[f].summary = None
            /\ ~quiet =>
                  /\ run[f].summary.some
                  /\ run[f].summary.val.count = Cardinality(SelectedPages)

\* --page 2,2 on a document of three pages: one file, prefix2.png
C6_Witness ==
    /\ pages = <<2, 2>>
    /\ total = 3
    /\ ~quiet
    /\ run["png"].pc = "done"
    /\ Len(run["png"].written) = 1
    /\ run["png"].written[1].name = resolve_prefix(prefix, input) \o <<"2", ".", "png">>
    /\ run["png"].summary.val.count = 1

\* C7: pages are rendered and written one at a time in ascending index, and
\* the first failing write ends the run with a FileSystem error: the files
\* written are those of the selected pages below the failing one, nothing
\* above it is rendered or written, the write is tried once, and no summary is
\* reported.
C7_AscendingAndAbort ==
    \A f \in Formats :
        LET r == run[f]
        IN  /\ Ascending(r.rendered)
            /\ r.write_attempts = r.rendered
            /\ \A j \in 1..Len(r.rendered) : r.rendered[j] \in SelectedPages
            /\ r.written =
                 [j \in 1..Len(r.written) |->
                     [name |-> ExpectedName(f, r.rendered[j]),
                      data |-> r.written[j].data]]
            /\ \A j \in 1..Len(r.write_attempts) :
                  LET k == r.write_attempts[j]
                  IN  k \in env.write_fails =>
                        /\ r.pc = "failed"
                        /\ ErrorTag(r) = "FileSystem"
                        /\ WrittenNames(r) =
                             {ExpectedName(f, i) : i \in {s \in SelectedPages : s < k}}
                        /\ \A n \in 1..Len(r.rendered) : r.rendered[n] <= k
                        /\ Cardinality({n \in 1..Len(r.write_attempts) :
                                           r.write_attempts[n] = k}) = 1
                        /\ r.summary = None

\* both runs have stopped at a failing write with a page written before it and
\* a selected page left after it
C7_Witness ==
    \A f \in Formats :
        /\ run[f].pc = "failed"
        /\ Len(run[f].written) >= 1
        /\ Len(run[f].write_attempts) = Len(run[f].written) + 1
        /\ \E i \in SelectedPages : i > Last(run[f].write_attempts)

\* C8: the checks run in the order read, sniff, parse, validate, render and
\* write, and a failure prevents every later step: a FileType error comes
\* without any parsing attempted, and a FileType, PDF or PageValidation error
\* comes with no page rendered and no file written.
C8_CheckOrder ==
    \A f \in Formats :
        LET r == run[f]
            before(stages) == r.pc \in stages \cup {"failed"}
        IN  /\ ErrorTag(r) = "FileType" => ~r.parse_attempted
            /\ ErrorTag(r) \in {"FileType", "PDF", "PageValidation"} =>
                  r.rendered = <<>> /\ r.write_attempts = <<>> /\ r.written = <<>>
            /\ env.fail = "read" =>
                  /\ before({"create_dir", "read"})
                  /\ r.pc = "failed" => ErrorTag(r) = "FileSystem"
                  /\ ~r.parse_attempted
            /\ env.fail = "sniff" =>
                  /\ before({"create_dir", "read", "sniff"})
                  /\ r.pc = "failed" => ErrorTag(r) = "FileType"
            /\ env.fail = "parse" =>
                  /\ before({"create_dir", "read", "sniff", "parse"})
                  /\ r.pc = "failed" => ErrorTag(r) = "PDF"
            /\ (env.fail = "none" /\ ~RequestValid) =>
                  /\ before({"create_dir", "read", "sniff", "parse", "select"})
                  /\ r.pc = "failed" => ErrorTag(r) = "PageValidation"
            /\ ErrorTag(r) = "PageValidation" => r.parse_attempted /\ ~RequestValid

\* a file that is no PDF, asked for a page that cannot exist: FileType, nothing
\* parsed; the request is never looked at
C8_Witness ==
    /\ ~RequestValid
    /\ \A f \in Formats :
          /\ ErrorTag(run[f]) = "FileType"
          /\ ~run[f].parse_attempted
          /\ run[f].written = <<>>

\* a file name without its extension
Stem(name) == SubSeq(name, 1, Len(name) - 1)

\* C10: on the same command line, document and write failures the PNG and the
\* SVG path select the same indices, visit them in the same order, write the
\* same names up to the extension, stop at the same page, and report the same
\* count.
C10_FormatsAgree ==
    (Finished(run["png"]) /\ Finished(run["svg"])) =>
        LET a == run["png"]
            b == run["svg"]
        IN  /\ a.pc = b.pc
            /\ a.page_set = b.page_set
            /\ a.rendered = b.rendered
            /\ a.write_attempts = b.write_attempts
            /\ Len(a.written) = Len(b.written)
            /\ \A j \in 1..Len(a.written) :
                  /\ Stem(a.written[j].name) = Stem(b.written[j].name)
                  /\ Last(a.written[j].name) = "png"
                  /\ Last(b.written[j].name) = "svg"
            /\ ErrorTag(a) = ErrorTag(b)
            /\ a.summary.some = b.summary.some
            /\ a.summary.some => a.summary.val.count = b.summary.val.count

\* pages 3 and 1 requested in that order, the write of page 3 failing: both
\* runs wrote page 1 and stopped at page 3
C10_Witness ==
    /\ pages = <<3, 1>>
    /\ env.write_fails = {2}
    /\ \A f \in Formats :
          /\ run[f].pc = "failed"
          /\ run[f].rendered = <<0, 2>>
          /\ Len(run[f].written) = 1

=============================================================================
